---- MODULE Spec2Model ----
(***************************************************************************)
(* Model of the XMI graph loader (xmi/v2/models/xmi_model/xmi_model.py),   *)
(* the entity constructors it dispatches to and the coordinate             *)
(* deduplication cache.                                                    *)
(*                                                                         *)
(* Conventions                                                             *)
(*  - Python objects have identity: every XmiPoint3D, entity and           *)
(*    relationship instance is a handle (a positive integer) allocated     *)
(*    from nextObj; "x is y" is equality of handles.                       *)
(*  - Coordinates and tolerances are integers counted in units of half     *)
(*    the default tolerance (5e-11), so DefaultTolerance = 2 units.        *)
(*  - Absent is a key that is not in a dict, None is Python's None.        *)
(***************************************************************************)
EXTENDS Integers, Sequences, FiniteSets, TLC

VARIABLES
    entities,       \* XmiModel.entities: sequence of entity instances
    relationships,  \* XmiModel.relationships: sequence of relationship instances
    errors,         \* XmiModel.errors: sequence of ErrorLog records / raw exceptions
    point_cache,    \* XmiModel._point_cache: key -> XmiPoint3D handle
    points,         \* heap of XmiPoint3D instances: handle -> coordinates
    nextObj,        \* next free object handle
    nextUuid,       \* number of uuid4() tokens handed out to tracked ids
    pc,             \* "idle" | "entities" | "relationships": position in load_from_dict
    data,           \* the payload of the running (or last) load_from_dict call
    index,          \* enumerate() position in the list being walked (1-based here)
    loads,          \* number of load_from_dict calls started
    taken,          \* [ent, rel]: records handed to load_from_dict so far
    calls,          \* number of direct create_point_3d calls
    start,          \* the Model as the running (or last) load_from_dict call found it
    last,           \* outcome of the last step (history variable)
    heap,           \* entity instances the application built itself, in order
    models,         \* XmiManager.models: the Models read_xmi_dict returned
    metadata        \* XmiModel.name, xmi_version, application_name, application_version

vars == <<entities, relationships, errors, point_cache, points, nextObj, nextUuid,
          pc, data, index, loads, taken, calls, start, last, heap,
          models, metadata>>

---------------------------------------------------------------------------
(* Bounds of the model.                                                    *)
MaxEntities == 2     \* entity records handed to load_from_dict in one run
MaxPointEntities == 3 \* the same, in the runs about shared points
MaxRels == 2         \* relationship records handed to load_from_dict in one run
MaxLoads == 2        \* load_from_dict calls in one run
MaxCalls == 2        \* direct create_point_3d calls in one run
MaxCacheRecords == 1 \* records of either list in the runs that call create_point_3d

(* XmiModel._point_tolerance = 1e-10, in units of 5e-11.                   *)
DefaultTolerance == 2

Absent == "<absent>"
None == "None"

---------------------------------------------------------------------------
(* Wire records.                                                           *)

\* A nested coordinate map: k = "dict" (a map with X, Y, Z), "partial" (a map
\* without Z), "scalar" (not a map) or "absent" (the key is not in the record).
PointData(k, c) == [k |-> k, c |-> c]
NoPoint == PointData("absent", <<0, 0, 0>>)
Dict(c) == PointData("dict", c)

\* One record of Entities or Relationships. shape = "map", or "scalar" for a
\* list element that is not a map. EntityType is a string, or one of the tag
\* codes below.
WireRecord(tag, id, name) ==
    [shape |-> "map", EntityType |-> tag, ID |-> id, Name |-> name,
     Coords |-> NoPoint, Point |-> NoPoint, StartPoint |-> NoPoint,
     EndPoint |-> NoPoint, CenterPoint |-> NoPoint,
     MaterialType |-> Absent, StoreyElevation |-> Absent, StoreyMass |-> Absent,
     Source |-> Absent, Target |-> Absent]

NoRecord == WireRecord(Absent, Absent, Absent)

TagInt == "#7"       \* EntityType: 7   (hashable, truthy, not a string)
TagList == "#[]"     \* EntityType: ["XmiPoint3D"]  (unhashable)

IsStr(tag) == tag \notin {Absent, None, TagInt, TagList}
Hashable(tag) == tag # TagList
\* Python truthiness of data.get("EntityType")
Truthy(tag) == tag \notin {Absent, None, ""}

\* dict.get(key): a missing key reads as None
Get(v) == IF v = Absent THEN None ELSE v

---------------------------------------------------------------------------
(* XmiModel._quantize: round(value / tolerance), Python's round-half-even. *)
Quantize(value, tolerance) ==
    LET q == value \div tolerance
        r == value % tolerance
    IN  IF 2 * r < tolerance THEN q
        ELSE IF 2 * r > tolerance THEN q + 1
        ELSE IF q % 2 = 0 THEN q ELSE q + 1

(* XmiModel._point_cache_key                                               *)
PointCacheKey(c, tolerance) ==
    <<Quantize(c[1], tolerance), Quantize(c[2], tolerance),
      Quantize(c[3], tolerance), tolerance>>

Abs(n) == IF n < 0 THEN -n ELSE n

WithinTolerance(a, b, tol) ==
    /\ Abs(a[1] - b[1]) <= tol
    /\ Abs(a[2] - b[2]) <= tol
    /\ Abs(a[3] - b[3]) <= tol

Put(f, k, v) == [x \in DOMAIN f \cup {k} |-> IF x = k THEN v ELSE f[x]]

\* The part of the Model (and of the heap) that one step reads and writes.
Bundle == [entities |-> entities, relationships |-> relationships,
           errors |-> errors, point_cache |-> point_cache, points |-> points,
           nextObj |-> nextObj, nextUuid |-> nextUuid]

(* XmiPoint3D(x=x, y=y, z=z): a new instance on the heap.                  *)
NewPoint(m, c) ==
    [m EXCEPT !.points = Put(m.points, m.nextObj, c), !.nextObj = m.nextObj + 1]

\* A _register_point that stores nothing
RegisterPointNoop(m, h, tol) == m

(* XmiModel._register_point                                                *)
RegisterPoint(m, h, tol) ==
    [m EXCEPT !.point_cache = Put(m.point_cache, PointCacheKey(m.points[h], tol), h)]

\* Does create_point_3d return the cached instance?
CacheHit(m, c, tol) ==
    LET key == PointCacheKey(c, tol)
    IN  /\ key \in DOMAIN m.point_cache
        /\ WithinTolerance(m.points[m.point_cache[key]], c, tol)

\* A create_point_3d that keys the cache by the default tolerance, whatever
\* the tolerance of the call
CreatePoint3DOneKey(m, c, tol) ==
    LET key == PointCacheKey(c, DefaultTolerance)
    IN  IF /\ key \in DOMAIN m.point_cache
           /\ WithinTolerance(m.points[m.point_cache[key]], c, tol)
        THEN [m |-> m, result |-> m.point_cache[key]]
        ELSE LET m1 == NewPoint(m, c)
             IN  [m |-> [m1 EXCEPT !.point_cache = Put(m.point_cache, key, m.nextObj)],
                  result |-> m.nextObj]

\* A create_point_3d that returns any point cached under the tolerance of the
\* call that is within that tolerance of the request, whatever its bucket
CreatePoint3DNear(m, c, tol) ==
    LET near == {k \in DOMAIN m.point_cache :
                    k[4] = tol /\ WithinTolerance(m.points[m.point_cache[k]], c, tol)}
        m1 == NewPoint(m, c)
    IN  IF near # {}
        THEN [m |-> m, result |-> m.point_cache[CHOOSE k \in near : TRUE]]
        ELSE [m |-> [m1 EXCEPT !.point_cache =
                                  Put(m.point_cache, PointCacheKey(c, tol), m.nextObj)],
              result |-> m.nextObj]

\* A create_point_3d that looks the request up under its own tolerance and
\* stores a new point under the key of the default tolerance
CreatePoint3DStoreDefault(m, c, tol) ==
    LET key == PointCacheKey(c, tol)
        m1 == NewPoint(m, c)
    IN  IF CacheHit(m, c, tol)
        THEN [m |-> m, result |-> m.point_cache[key]]
        ELSE [m |-> [m1 EXCEPT !.point_cache =
                                  Put(m.point_cache, PointCacheKey(c, DefaultTolerance),
                                      m.nextObj)],
              result |-> m.nextObj]

(* XmiModel.create_point_3d: [m |-> the Model after the call, result |-> handle] *)
CreatePoint3D(m, c, tol) ==
    LET key == PointCacheKey(c, tol)
    IN  IF CacheHit(m, c, tol)
        THEN [m |-> m, result |-> m.point_cache[key]]
        ELSE LET m1 == NewPoint(m, c)
             IN  [m |-> [m1 EXCEPT !.point_cache = Put(m.point_cache, key, m.nextObj)],
                  result |-> m.nextObj]

---------------------------------------------------------------------------
(* Entity instances and pydantic validation of the base fields.            *)

\* An instance in Model.entities. point, start_point, end_point and
\* center_point are XmiPoint3D handles (0 where the class has no such field).
\* index is a history field: the position of the record it was built from.
Entity(obj, cls, base) ==
    [obj |-> obj, cls |-> cls, id |-> base.id, name |-> base.name,
     entity_type |-> base.entity_type, point |-> 0, start_point |-> 0,
     end_point |-> 0, center_point |-> 0, material_type |-> None, index |-> -1]

\* uuid.uuid4() as the n-th token of the run
Uuid(n) == "uuid-" \o ToString(n)

\* The base-field keys of the dict given to model_validate / cls(...): the
\* wire-format keys (ID, Name, EntityType) and the field names (id, name,
\* entity_type), each a string, None or Absent.
BaseValues(ID, id, Name, name, EntityType, entity_type) ==
    [ID |-> ID, id |-> id, Name |-> Name, name |-> name,
     EntityType |-> EntityType, entity_type |-> entity_type]

NoValues == BaseValues(Absent, Absent, Absent, Absent, Absent, Absent)

(* XmiBaseEntity.fill_defaults                                             *)
FillDefaults(values, uuid, clsname) ==
    LET id_ == IF Truthy(values.ID) THEN values.ID
               ELSE IF Truthy(values.id) THEN values.id ELSE uuid
    IN  [values EXCEPT
           !.ID = IF values.ID = Absent /\ values.id = Absent THEN id_ ELSE @,
           !.Name = IF values.Name = Absent /\ values.name = Absent THEN id_ ELSE @,
           !.EntityType = IF values.EntityType = Absent /\ values.entity_type = Absent
                          THEN clsname ELSE @]

\* fill_defaults calls uuid.uuid4() only when neither ID nor id is truthy
UsesUuid(values) == ~Truthy(values.ID) /\ ~Truthy(values.id)

(* values.setdefault("entity_type", <class tag>), the model validator of    *)
(* XmiStructuralPointConnection, XmiMaterial and XmiStorey                 *)
SetDefaultEntityType(values, clsname) ==
    [values EXCEPT !.entity_type = IF @ = Absent THEN clsname ELSE @]

(* XmiBaseGeometry.set_entity_type                                         *)
GeometrySetEntityType(values, clsname) ==
    [values EXCEPT !.EntityType =
        IF Truthy(values.EntityType) THEN values.EntityType
        ELSE IF Truthy(values.entity_type) THEN values.entity_type ELSE clsname]

\* populate_by_name: a field is read under its alias, else under its name
Field(byAlias, byName) == IF byAlias # Absent THEN byAlias ELSE byName

\* pydantic's validation of id (str), name and entity_type (Optional[str])
\* after the "before" validators ran, the subclass's first.
\* [ok, id, name, entity_type]
ValidateBase(values) ==
    LET id == Field(values.ID, values.id)
    IN  [ok |-> id \notin {Absent, None},
         id |-> id,
         name |-> Get(Field(values.Name, values.name)),
         entity_type |-> Get(Field(values.EntityType, values.entity_type))]

\* The result of a constructor-from-map: (instance, errors) with the Model
\* as the point factory left it.
\* raises: the constructor raised instead of returning.
Built(m, e, errs) == [built |-> TRUE, raises |-> FALSE, e |-> e, errors |-> errs, m |-> m]
NotBuilt(m, errs) ==
    [built |-> FALSE, raises |-> FALSE, e |-> Entity(0, None, ValidateBase(NoValues)),
     errors |-> errs, m |-> m]
Raises(m) == [NotBuilt(m, <<>>) EXCEPT !.raises = TRUE]

\* A raw exception object, as the constructors return them
Exc(msg) == [cls |-> "Exception", entity_type |-> None, index |-> -1, message |-> msg]

(* ErrorLog(entity_type=..., index=..., message=..., obj=str(record))      *)
ErrorLog(entity_type, idx, msg) ==
    [cls |-> "ErrorLog", entity_type |-> entity_type, index |-> idx, message |-> msg]

(* XmiPoint3D.from_dict(obj)                                               *)
Point3DFromDict(m, obj) ==
    LET missing == IF obj.Coords.k = "absent"
                   THEN <<Exc("Missing attribute: X"), Exc("Missing attribute: Y"),
                          Exc("Missing attribute: Z")>>
                   ELSE IF obj.Coords.k = "partial"
                   THEN <<Exc("Missing attribute: Z")>>
                   ELSE <<>>
        v0 == BaseValues(obj.ID, Absent, obj.Name, Absent, obj.EntityType, Absent)
        v1 == FillDefaults(GeometrySetEntityType(v0, "XmiPoint3D"),
                           Uuid(m.nextUuid), "XmiPoint3D")
        base == ValidateBase(v1)
        m1 == NewPoint([m EXCEPT !.nextUuid = IF UsesUuid(v0) THEN @ + 1 ELSE @],
                       obj.Coords.c)
    IN  IF obj.Coords.k = "dict" /\ base.ok
        THEN Built(m1, Entity(m.nextObj, "XmiPoint3D", base), missing)
        ELSE NotBuilt(m, missing \o <<Exc("Error instantiating XmiPoint3D")>>)

\* (point, []) as [m, result, errors], for the result r of create_point_3d
PointMade(r) == [m |-> r.m, result |-> r.result, errors |-> <<>>]

\* make_point of XmiLine3D.from_dict / XmiArc3D.from_dict with the Model's
\* create_point_3d as point_factory: [m, result (0 for None), errors]
MakePoint(m, pd) ==
    IF pd.k \in {"scalar", "absent"}
    THEN [m |-> m, result |-> 0, errors |-> <<Exc("Point data must be a dict")>>]
    ELSE IF pd.k = "partial"
    THEN [m |-> m, result |-> 0, errors |-> <<Exc("Invalid point data")>>]
    ELSE PointMade(CreatePoint3D(m, pd.c, DefaultTolerance))

MissingAttr(pd, attr) ==
    IF pd.k = "absent" THEN <<Exc("Missing attribute: " \o attr)>> ELSE <<>>

\* XmiLine3D.from_dict once both points are made (s, e: make_point's results):
\* cls(start_point=..., end_point=...), no ID, Name or EntityType passed
Line3DFromPoints(s, e) ==
    LET v1 == FillDefaults(GeometrySetEntityType(NoValues, "XmiLine3D"),
                           Uuid(e.m.nextUuid), "XmiLine3D")
    IN  IF s.result = 0 \/ e.result = 0
        THEN NotBuilt(e.m, s.errors \o e.errors)
        ELSE Built([e.m EXCEPT !.nextUuid = @ + 1, !.nextObj = @ + 1],
                   [Entity(e.m.nextObj, "XmiLine3D", ValidateBase(v1)) EXCEPT
                       !.start_point = s.result, !.end_point = e.result],
                   <<>>)

Line3DEndPoint(obj, s) == Line3DFromPoints(s, MakePoint(s.m, obj.EndPoint))

(* XmiLine3D.from_dict(obj, point_factory=self.create_point_3d)            *)
Line3DFromDict(m, obj) ==
    LET missing == MissingAttr(obj.StartPoint, "start_point")
                   \o MissingAttr(obj.EndPoint, "end_point")
    IN  IF missing # <<>>
        THEN NotBuilt(m, missing)
        ELSE Line3DEndPoint(obj, MakePoint(m, obj.StartPoint))

\* XmiArc3D.from_dict once the three points are made:
\* cls(..., radius=obj.get("radius"), name=obj.get("name")): the wire record
\* has no key "name", so name=None is passed; no ID is passed
Arc3DFromPoints(s, e, c) ==
    LET v0 == [NoValues EXCEPT !.name = None]
        v1 == FillDefaults(GeometrySetEntityType(v0, "XmiArc3D"),
                           Uuid(c.m.nextUuid), "XmiArc3D")
    IN  IF s.result = 0 \/ e.result = 0 \/ c.result = 0
        THEN NotBuilt(c.m, s.errors \o e.errors \o c.errors)
        ELSE Built([c.m EXCEPT !.nextUuid = @ + 1, !.nextObj = @ + 1],
                   [Entity(c.m.nextObj, "XmiArc3D", ValidateBase(v1)) EXCEPT
                       !.start_point = s.result, !.end_point = e.result,
                       !.center_point = c.result],
                   <<>>)

Arc3DCenterPoint(obj, s, e) == Arc3DFromPoints(s, e, MakePoint(e.m, obj.CenterPoint))

Arc3DEndPoint(obj, s) == Arc3DCenterPoint(obj, s, MakePoint(s.m, obj.EndPoint))

(* XmiArc3D.from_dict(obj, point_factory=self.create_point_3d)             *)
Arc3DFromDict(m, obj) ==
    LET missing == MissingAttr(obj.StartPoint, "start_point")
                   \o MissingAttr(obj.EndPoint, "end_point")
                   \o MissingAttr(obj.CenterPoint, "center_point")
    IN  IF missing # <<>>
        THEN NotBuilt(m, missing)
        ELSE Arc3DEndPoint(obj, MakePoint(m, obj.StartPoint))

\* The nested point of XmiStructuralPointConnection.from_dict: [m, result, errors]
NestedPoint(m, pd) ==
    IF pd.k = "dict"
    THEN PointMade(CreatePoint3D(m, pd.c, DefaultTolerance))
    ELSE IF pd.k = "partial"
    THEN [m |-> m, result |-> 0,
          errors |-> <<Exc("Missing attribute: Z"),
                       Exc("Error instantiating XmiPoint3D")>>]
    ELSE [m |-> m, result |-> 0,
          errors |-> <<Exc("Point data is missing or invalid")>>]

\* XmiStructuralPointConnection.from_dict from cls.model_validate(processed)
\* on: errs are the errors collected so far, base the validated base fields
PointConnectionValidate(p, v0, base, errs) ==
    IF base.ok /\ p.result # 0
    THEN Built([p.m EXCEPT !.nextObj = @ + 1,
                           !.nextUuid = IF UsesUuid(v0) THEN @ + 1 ELSE @],
               [Entity(p.m.nextObj, "XmiStructuralPointConnection", base)
                   EXCEPT !.point = p.result],
               errs)
    ELSE NotBuilt(p.m, errs \o <<Exc("validation error for XmiStructuralPointConnection")>>)

\* processed[attr] = None for every missing attribute
PointConnectionValues(obj) ==
    BaseValues(obj.ID, IF obj.ID = Absent THEN None ELSE Absent,
               obj.Name, IF obj.Name = Absent THEN None ELSE Absent,
               obj.EntityType, Absent)

PointConnectionWithPoint(obj, p) ==
    PointConnectionValidate(
        p, PointConnectionValues(obj),
        ValidateBase(FillDefaults(SetDefaultEntityType(PointConnectionValues(obj),
                                                       "XmiStructuralPointConnection"),
                                  Uuid(p.m.nextUuid), "XmiStructuralPointConnection")),
        (IF obj.ID = Absent THEN <<Exc("Missing attribute: id")>> ELSE <<>>)
            \o (IF obj.Name = Absent THEN <<Exc("Missing attribute: name")>> ELSE <<>>)
            \o MissingAttr(obj.Point, "point")
            \o p.errors)

(* XmiStructuralPointConnection.from_dict(obj, point_factory=self.create_point_3d) *)
PointConnectionFromDict(m, obj) == PointConnectionWithPoint(obj, NestedPoint(m, obj.Point))

\* The values of XmiStructuralMaterialTypeEnum
MaterialTypeValues ==
    {"Concrete", "Steel", "Timber", "Aluminium", "Composite", "Masonry", "Others",
     "Rebar", "Tendon"}

\* str.lower(), on the values the payloads of the model give
Lower(v) ==
    CASE v \in {"Concrete", "concrete", "CONCRETE"} -> "concrete"
      [] v \in {"Steel", "steel", "STEEL"} -> "steel"
      [] v = "Timber" -> "timber"
      [] v = "Aluminium" -> "aluminium"
      [] v = "Composite" -> "composite"
      [] v = "Masonry" -> "masonry"
      [] v = "Others" -> "others"
      [] v = "Rebar" -> "rebar"
      [] v = "Tendon" -> "tendon"
      [] OTHER -> v

(* XmiBaseEnum._missing_, the fallback of XmiStructuralMaterialTypeEnum(value): *)
(* the member whose value equals the input when case is ignored, else None *)
EnumMissing(v) ==
    IF \E member \in MaterialTypeValues : Lower(member) = Lower(v)
    THEN CHOOSE member \in MaterialTypeValues : Lower(member) = Lower(v)
    ELSE None

(* XmiBaseEnum.from_attribute_get_enum: does the exact-value lookup succeed? *)
FromAttributeGetEnum(v) == v \in MaterialTypeValues

(* XmiMaterial.from_dict(obj), the class registered as "XmiStructuralMaterial" *)
MaterialFromDict(m, obj) ==
    LET \* processed[name] = obj[alias] for every alias in obj
        v0 == BaseValues(Absent, obj.ID, Absent, obj.Name, Absent, obj.EntityType)
        v1 == FillDefaults(SetDefaultEntityType(v0, "XmiStructuralMaterial"),
                           Uuid(m.nextUuid), "XmiMaterial")
        base == ValidateBase(v1)
        m1 == [m EXCEPT !.nextObj = @ + 1,
                        !.nextUuid = IF UsesUuid(v0) THEN @ + 1 ELSE @]
    IN  IF obj.MaterialType = Absent
        THEN NotBuilt(m, <<Exc("Missing attribute: material_type")>>)
        ELSE IF ~FromAttributeGetEnum(obj.MaterialType)
        THEN NotBuilt(m, <<Exc("Invalid material_type: Invalid XmiStructuralMaterialTypeEnum value: "
                               \o obj.MaterialType),
                           Exc("Error instantiating XmiStructuralMaterial")>>)
        ELSE IF ~base.ok
        THEN NotBuilt(m, <<Exc("Error instantiating XmiStructuralMaterial")>>)
        ELSE Built(m1, [Entity(m.nextObj, "XmiStructuralMaterial", base)
                           EXCEPT !.material_type = obj.MaterialType],
                   <<>>)

(* XmiStorey.model_validate(entity_data): XmiStorey has no from_dict       *)
StoreyModelValidate(m, obj) ==
    LET v0 == BaseValues(obj.ID, Absent, obj.Name, Absent, obj.EntityType, Absent)
        v1 == FillDefaults(SetDefaultEntityType(v0, "XmiStorey"),
                           Uuid(m.nextUuid), "XmiStorey")
        base == ValidateBase(v1)
        m1 == [m EXCEPT !.nextObj = @ + 1,
                        !.nextUuid = IF UsesUuid(v0) THEN @ + 1 ELSE @]
    IN  IF base.ok /\ obj.StoreyElevation # Absent /\ obj.StoreyMass # Absent
        THEN Built(m1, Entity(m.nextObj, "XmiStorey", base), <<>>)
        ELSE Raises(m)

\* XmiWall.from_dict(obj): the class called on the record's keys, after
\* XmiWall.set_entity_type, XmiBasePhysicalEntity.set_physical_domain_type
\* and XmiBaseEntity.fill_defaults
WallFromDict(m, obj) ==
    LET v0 == BaseValues(obj.ID, Absent, obj.Name, Absent, obj.EntityType, Absent)
        v1 == FillDefaults([v0 EXCEPT !.EntityType = IF @ = Absent THEN "XmiWall" ELSE @],
                           Uuid(m.nextUuid), "XmiWall")
        base == ValidateBase(v1)
        m1 == [m EXCEPT !.nextObj = @ + 1,
                        !.nextUuid = IF UsesUuid(v0) THEN @ + 1 ELSE @]
    IN  IF base.ok
        THEN Built(m1, Entity(m.nextObj, "XmiWall", base), <<>>)
        ELSE NotBuilt(m, <<Exc("validation error for XmiWall")>>)

---------------------------------------------------------------------------
(* The type registry (the classes modelled here).                          *)
ENTITY_CLASS_MAPPING ==
    {"XmiPoint3D", "XmiLine3D", "XmiArc3D", "XmiStructuralPointConnection",
     "XmiStructuralMaterial", "XmiStorey", "XmiWall"}

RELATIONSHIP_CLASS_MAPPING == {"XmiHasGeometry", "XmiHasStructuralCurveMember"}

\* entity_class.from_dict(entity_data, **from_dict_kwargs), or
\* entity_class.model_validate(entity_data) for a class without from_dict
Construct(m, entity_type, obj) ==
    CASE entity_type = "XmiPoint3D" -> Point3DFromDict(m, obj)
      [] entity_type = "XmiLine3D" -> Line3DFromDict(m, obj)
      [] entity_type = "XmiArc3D" -> Arc3DFromDict(m, obj)
      [] entity_type = "XmiStructuralPointConnection" -> PointConnectionFromDict(m, obj)
      [] entity_type = "XmiStructuralMaterial" -> MaterialFromDict(m, obj)
      [] entity_type = "XmiStorey" -> StoreyModelValidate(m, obj)
      [] entity_type = "XmiWall" -> WallFromDict(m, obj)

\* One iteration of a loop of load_from_dict: the Model after it, and
\* whether an exception left the loop (and load_from_dict).
Returned(m) == [m |-> m, raised |-> FALSE]
Raised(m) == [m |-> m, raised |-> TRUE]

\* An error log that keeps only the latest entry
LogErrorLatest(m, e) == [m EXCEPT !.errors = <<e>>]

LogError(m, e) == [m EXCEPT !.errors = Append(@, e)]

\* The "not recognized" branch shared by both loops. ErrorLog.entity_type is
\* a str field: a truthy tag that is no string fails ErrorLog's validation,
\* outside any try block.
Unrecognized(m, what, tag, idx) ==
    IF Truthy(tag) /\ ~IsStr(tag)
    THEN Raised(m)
    ELSE Returned(LogError(m, ErrorLog(IF Truthy(tag) THEN tag ELSE "Unknown", idx,
                                       what \o " type '" \o tag \o "' is not recognized.")))

\* A loader that puts a new entity at the head of the list
AddEntityFirst(entity_type, idx, r) ==
    IF r.raises
    THEN Returned(LogError(r.m, ErrorLog(entity_type, idx, "Failed to instantiate entity")))
    ELSE IF ~r.built
    THEN Returned([r.m EXCEPT !.errors = @ \o r.errors])
    ELSE Returned([r.m EXCEPT !.entities = <<[r.e EXCEPT !.index = idx]>> \o @,
                              !.errors = @ \o r.errors])

\* load_from_dict from the constructor's outcome r on: lines 110-121
AddEntity(entity_type, idx, r) ==
    IF r.raises
    THEN Returned(LogError(r.m, ErrorLog(entity_type, idx, "Failed to instantiate entity")))
    ELSE IF ~r.built
    THEN Returned([r.m EXCEPT !.errors = @ \o r.errors])
    ELSE IF r.e.cls = "XmiPoint3D"
    THEN Returned(RegisterPoint([r.m EXCEPT
                                    !.entities = Append(@, [r.e EXCEPT !.index = idx]),
                                    !.errors = @ \o r.errors],
                                r.e.obj, DefaultTolerance))
    ELSE Returned([r.m EXCEPT !.entities = Append(@, [r.e EXCEPT !.index = idx]),
                              !.errors = @ \o r.errors])

(* load_from_dict, the body of the loop over data["Entities"]; idx is      *)
(* enumerate()'s 0-based index                                             *)
LoadEntity(m, entity_data, idx) ==
    IF entity_data.shape # "map"
    THEN Raised(m)            \* entity_data.get: AttributeError
    ELSE IF ~Hashable(Get(entity_data.EntityType))
    THEN Raised(m)            \* ENTITY_CLASS_MAPPING.get(entity_type): TypeError
    ELSE IF \/ ~Truthy(Get(entity_data.EntityType))
            \/ Get(entity_data.EntityType) \notin ENTITY_CLASS_MAPPING
    THEN Unrecognized(m, "Entity", Get(entity_data.EntityType), idx)
    ELSE AddEntity(entity_data.EntityType, idx,
                   Construct(m, entity_data.EntityType, entity_data))

---------------------------------------------------------------------------
(* Relationships.                                                          *)

\* An instance in Model.relationships; source and target are entity handles.
\* index is a history field: the position of the record it was built from.
Relationship(obj, cls, id, source, target, name, entity_type) ==
    [obj |-> obj, cls |-> cls, id |-> id, source |-> source, target |-> target,
     name |-> name, entity_type |-> entity_type, index |-> -1]

IsGeometry(e) == e.cls \in {"XmiPoint3D", "XmiLine3D", "XmiArc3D"}

\* isinstance(v, XmiBasePhysicalEntity), among the classes modelled here
IsPhysical(e) == e.cls = "XmiWall"

\* isinstance(v, XmiStructuralCurveMember), the class that
\* xmi_has_structural_curve_member.py imports from
\* entities/xmi_structural_curve_member.py: no class of the registry is it or
\* derives from it
IsCurveMember(e) == e.cls = "XmiStructuralCurveMember"

\* A validate_target that accepts every entity
TargetOkAny(cls, e) == TRUE

(* validate_source / validate_target of XmiHasGeometry and of              *)
(* XmiHasStructuralCurveMember; XmiBaseRelationship has neither            *)
SourceOk(cls, e) == cls = "XmiHasStructuralCurveMember" => IsPhysical(e)
TargetOk(cls, e) ==
    CASE cls = "XmiHasGeometry" -> IsGeometry(e)
      [] cls = "XmiHasStructuralCurveMember" -> IsCurveMember(e)
      [] OTHER -> TRUE

(* set_defaults of XmiHasGeometry and of XmiHasStructuralCurveMember:      *)
(* values.setdefault("name", ...), values.setdefault("entity_type", ...);  *)
(* XmiBaseRelationship sets no name and has a default entity_type          *)
DefaultName(cls) ==
    CASE cls = "XmiHasGeometry" -> "hasGeometry"
      [] cls = "XmiHasStructuralCurveMember" -> "hasStructuralCurveMember"
      [] OTHER -> Absent
DefaultEntityType(cls) ==
    CASE cls = "XmiHasGeometry" -> "XmiRelHasGeometry"
      [] cls = "XmiHasStructuralCurveMember" -> "XmiRelHasStructuralCurveMember"
      [] OTHER -> "XmiRelBaseRelationship"

\* A find_entity that keeps scanning and returns the last entity with that id
FindEntityLast(ents, entity_id) ==
    LET hits == {i \in 1..Len(ents) : ents[i].id = entity_id}
    IN  IF hits = {} THEN 0 ELSE CHOOSE i \in hits : \A j \in hits : i >= j

\* A find_entity that returns the first entity whatever the id asked for
FindEntityAny(ents, entity_id) == IF ents = <<>> THEN 0 ELSE 1

(* XmiModel.find_entity: position of the first entity with that id, 0 for None *)
FindEntity(ents, entity_id) ==
    LET hits == {i \in 1..Len(ents) : ents[i].id = entity_id}
    IN  IF hits = {} THEN 0 ELSE CHOOSE i \in hits : \A j \in hits : i <= j

(* rel_class(source=source_entity, target=target_entity, **rel_data_clean), *)
(* or with name=name_kw where the caller passes the keyword (Absent where  *)
(* it does not).                                                           *)
(* [ok, rel]: set_defaults runs first, then XmiBaseRelationship.validate_fields, *)
(* then the field validators                                               *)
NewRelationship(m, cls, source, target, rel_data, name_kw) ==
    LET name_ == IF name_kw = Absent THEN DefaultName(cls) ELSE name_kw
                                                      \* values.setdefault("name", ...)
        id == IF rel_data.ID = Absent THEN Uuid(m.nextUuid) ELSE rel_data.ID
        name == Field(rel_data.Name, name_)
        entity_type == Field(rel_data.EntityType, DefaultEntityType(cls))
    IN  [ok |-> /\ Truthy(name_)                      \* validate_fields
                /\ SourceOk(cls, source) /\ TargetOk(cls, target)
                /\ id # None /\ name # None /\ entity_type # None,
         rel |-> Relationship(m.nextObj, cls, id, source.obj, target.obj, name,
                              entity_type),
         m |-> [m EXCEPT !.nextObj = @ + 1,
                         !.nextUuid = IF rel_data.ID = Absent THEN @ + 1 ELSE @]]

\* A loader that puts a new relationship at the head of the list
AddRelationshipFirst(m, rel_type, idx, r) ==
    IF r.ok
    THEN Returned([r.m EXCEPT !.relationships = <<[r.rel EXCEPT !.index = idx]>> \o @])
    ELSE Returned(LogError(m, ErrorLog(rel_type, idx, "Failed to instantiate relationship")))

\* load_from_dict from rel_class(...)'s outcome r on: lines 151-161
AddRelationship(m, rel_type, idx, r) ==
    IF r.ok
    THEN Returned([r.m EXCEPT !.relationships = Append(@, [r.rel EXCEPT !.index = idx])])
    ELSE Returned(LogError(m, ErrorLog(rel_type, idx, "Failed to instantiate relationship")))

\* load_from_dict from find_entity's results s and t on: lines 142-161
ResolveRelationship(m, rel_data, idx, s, t) ==
    IF s = 0 \/ t = 0
    THEN Returned(LogError(m, ErrorLog(rel_data.EntityType, idx,
                     "Missing source or target entity for relationship.")))
    ELSE AddRelationship(m, rel_data.EntityType, idx,
                         NewRelationship(m, rel_data.EntityType, m.entities[s],
                                         m.entities[t], rel_data, Absent))

(* load_from_dict, the body of the loop over data["Relationships"]         *)
LoadRelationship(m, rel_data, idx) ==
    IF rel_data.shape # "map"
    THEN Raised(m)            \* rel_data.get: AttributeError
    ELSE IF ~Hashable(Get(rel_data.EntityType))
    THEN Raised(m)            \* RELATIONSHIP_CLASS_MAPPING.get(rel_type): TypeError
    ELSE IF \/ ~Truthy(Get(rel_data.EntityType))
            \/ Get(rel_data.EntityType) \notin RELATIONSHIP_CLASS_MAPPING
    THEN Unrecognized(m, "Relationship", Get(rel_data.EntityType), idx)
    ELSE ResolveRelationship(m, rel_data, idx,
                             FindEntity(m.entities, Get(rel_data.Source)),
                             FindEntity(m.entities, Get(rel_data.Target)))

(* load_from_dict as one function of the Model and the payload: the two   *)
(* loops, one after the other, each left at once by an exception           *)
RECURSIVE RunEntities(_, _, _)
RunEntities(m, recs, i) ==
    IF i = Len(recs)
    THEN Returned(m)
    ELSE LET r == LoadEntity(m, recs[i + 1], i)
         IN  IF r.raised THEN r ELSE RunEntities(r.m, recs, i + 1)

RECURSIVE RunRelationships(_, _, _)
RunRelationships(m, recs, i) ==
    IF i = Len(recs)
    THEN Returned(m)
    ELSE LET r == LoadRelationship(m, recs[i + 1], i)
         IN  IF r.raised THEN r ELSE RunRelationships(r.m, recs, i + 1)

LoadFromDict(m, d) ==
    LET e == RunEntities(m, d.Entities, 0)
    IN  IF e.raised THEN e ELSE RunRelationships(e.m, d.Relationships, 0)

---------------------------------------------------------------------------
(* XmiModel of xmi/v2/xmi_model.py: create_relationship and the two        *)
(* relationship queries, over the same entities and relationships lists.   *)

\* The tolerance of XmiPoint3D.equals_within_tolerance, 1e-6
EqTolerance == 20000

(* a == b for two entity instances: XmiPoint3D.__eq__ compares coordinates *)
(* within EqTolerance; the other classes keep pydantic's BaseModel.__eq__, *)
(* same class and equal field values                                       *)
Eq(pts, a, b) ==
    IF a.cls = "XmiPoint3D" /\ b.cls = "XmiPoint3D"
    THEN WithinTolerance(pts[a.obj], pts[b.obj], EqTolerance)
    ELSE /\ a.cls = b.cls
         /\ a.id = b.id /\ a.name = b.name /\ a.entity_type = b.entity_type
         /\ a.material_type = b.material_type
         /\ \A f \in {"point", "start_point", "end_point", "center_point"} :
               \/ a[f] = 0 /\ b[f] = 0
               \/ a[f] # 0 /\ b[f] # 0 /\ WithinTolerance(pts[a[f]], pts[b[f]], EqTolerance)

\* The instance with handle h, among the instances insts
InstanceOf(insts, h) == insts[CHOOSE i \in 1..Len(insts) : insts[i].obj = h]

(* [rel for rel in self.relationships if rel.source == source], and the    *)
(* same for target: the handles of the relationships returned, in order    *)
FindRelationshipsBy(m, insts, end, e) ==
    LET hit(r) == Eq(m.points, InstanceOf(insts, r[end]), e)
        RECURSIVE scan(_)
        scan(i) == IF i > Len(m.relationships) THEN <<>>
                   ELSE (IF hit(m.relationships[i]) THEN <<m.relationships[i].obj>>
                         ELSE <<>>) \o scan(i + 1)
    IN  scan(1)

\* A create_relationship that appends whatever the constructor's outcome
CreatedAppendAlways(m, r) ==
    [m |-> [r.m EXCEPT !.relationships = Append(@, r.rel)],
     result |-> r.rel.obj, raised |-> ~r.ok]

\* create_relationship from the constructor's outcome r on: lines 80-81
Created(m, r) ==
    IF r.ok
    THEN [m |-> [r.m EXCEPT !.relationships = Append(@, r.rel)],
          result |-> r.rel.obj, raised |-> FALSE]
    ELSE [m |-> m, result |-> 0, raised |-> TRUE]

(* XmiModel.create_relationship(relationship_class, source, target, name,  *)
(* **kwargs): name reaches the constructor of XmiBaseRelationship only,    *)
(* kwargs the constructor of every other class only                        *)
CreateRelationship(m, relationship_class, source, target, name, kwargs) ==
    IF relationship_class = "XmiBaseRelationship"
    THEN Created(m, NewRelationship(m, relationship_class, source, target,
                                    NoRecord, name))
    ELSE Created(m, NewRelationship(m, relationship_class, source, target,
                                    kwargs, Absent))

\* XmiPoint3D(x=.., y=.., z=..) or XmiWall(id=..) built by the application:
\* [m, e]
NewInstance(m, cls, id, c) ==
    LET v0 == BaseValues(Absent, id, Absent, Absent, Absent, Absent)
        v1 == IF cls = "XmiPoint3D" THEN GeometrySetEntityType(v0, cls)
              ELSE [v0 EXCEPT !.EntityType = cls]
        base == ValidateBase(FillDefaults(v1, Uuid(m.nextUuid), cls))
        m1 == IF cls = "XmiPoint3D" THEN NewPoint(m, c)
              ELSE [m EXCEPT !.nextObj = @ + 1]
    IN  [m |-> [m1 EXCEPT !.nextUuid = IF UsesUuid(v0) THEN @ + 1 ELSE @],
         e |-> Entity(m.nextObj, cls, base)]

---------------------------------------------------------------------------
(* XmiManager.read_xmi_dict.                                               *)

\* The registry read_xmi_dict imports: one map from type tag to class, for
\* the entity classes and the relationship classes alike
ENTITY_TYPE_MAPPING == ENTITY_CLASS_MAPPING \cup RELATIONSHIP_CLASS_MAPPING

\* XmiMissingRequiredAttributeError, XmiMissingReferenceInstanceError and
\* XmiError objects, as read_xmi_dict appends them to xmi_model.errors
XmiError(cls, msg) == [cls |-> cls, entity_type |-> None, index |-> -1, message |-> msg]

\* xmi_model = XmiModel(): empty lists and an empty point cache
FreshModel(m) ==
    [m EXCEPT !.entities = <<>>, !.relationships = <<>>, !.errors = <<>>,
              !.point_cache = <<>>]

\* read_xmi_dict from the outcome r of entity_class.from_dict(item) or
\* entity_class.model_validate(item) on: lines 50-68
ManagerAddEntity(r) ==
    IF r.raises
    THEN Returned(LogError(r.m, XmiError("XmiError", "Failed to instantiate")))
    ELSE IF ~r.built
    THEN Returned([r.m EXCEPT !.errors = @ \o r.errors])
    ELSE Returned([r.m EXCEPT !.entities = Append(@, r.e), !.errors = @ \o r.errors])

\* entity_class.from_dict(item), without a point factory, or
\* entity_class.model_validate(item), for the classes that nest no point
ManagerConstruct(m, entity_type, item) ==
    CASE entity_type = "XmiPoint3D" -> Point3DFromDict(m, item)
      [] entity_type = "XmiStructuralMaterial" -> MaterialFromDict(m, item)
      [] entity_type = "XmiStorey" -> StoreyModelValidate(m, item)
      [] entity_type = "XmiWall" -> WallFromDict(m, item)

(* read_xmi_dict, the body of the inner loop. A relationship record is     *)
(* given to model_validate as it is: its "Source" and "Target" are         *)
(* identifiers, not entities, and validation fails                         *)
ReadItem(m, item) ==
    IF item.shape # "map"
    THEN Raised(m)            \* item.get: AttributeError
    ELSE IF ~Hashable(Get(item.EntityType))
    THEN Raised(m)            \* ENTITY_TYPE_MAPPING.get(entity_type): TypeError
    ELSE IF ~Truthy(Get(item.EntityType))
    THEN Returned(LogError(m, XmiError("XmiMissingRequiredAttributeError",
                                       "Missing 'EntityType' in item.")))
    ELSE IF item.EntityType \notin ENTITY_TYPE_MAPPING
    THEN Returned(LogError(m, XmiError("XmiMissingReferenceInstanceError",
                                       "EntityType not found in ENTITY_TYPE_MAPPING.")))
    ELSE IF item.EntityType \in RELATIONSHIP_CLASS_MAPPING
    THEN Returned(LogError(m, XmiError("XmiError", "Failed to instantiate")))
    ELSE ManagerAddEntity(ManagerConstruct(m, item.EntityType, item))

RECURSIVE ReadItems(_, _, _)
ReadItems(m, items, i) ==
    IF i > Len(items)
    THEN Returned(m)
    ELSE LET r == ReadItem(m, items[i])
         IN  IF r.raised THEN r ELSE ReadItems(r.m, items, i + 1)

(* XmiManager.read_xmi_dict(xmi_dict) up to self.models.append: the new    *)
(* Model, or the exception that leaves the call                            *)
ReadXmiDict(m, xmi_dict) ==
    ReadItems(FreshModel(m), xmi_dict.Entities \o xmi_dict.Relationships, 1)

---------------------------------------------------------------------------
(* model.model_dump(by_alias=True): pydantic's serialisation of the Model. *)

\* A value that is a nested map, where the wire format has an identifier
ValueMap == "#{}"

\* An element of Entities: the list is declared List[XmiBaseEntity], so the
\* element is written with the fields of XmiBaseEntity under their aliases
DumpEntity(e) == WireRecord(e.entity_type, e.id, e.name)

\* An element of Relationships, the fields of XmiBaseRelationship under
\* their aliases: Source and Target are the dumps of the two entities,
\* nested maps
DumpRelationship(r) ==
    [WireRecord(r.entity_type, r.id, r.name) EXCEPT !.Source = ValueMap,
                                                     !.Target = ValueMap]

ModelDump(m) ==
    [Entities |-> [i \in 1..Len(m.entities) |-> DumpEntity(m.entities[i])],
     Relationships |-> [k \in 1..Len(m.relationships) |->
                          DumpRelationship(m.relationships[k])]]

---------------------------------------------------------------------------
(* The state machine.                                                      *)

\* The top-level keys of a payload next to its two lists, each a string or
\* Absent
Header(Name, XmiVersion, ApplicationName, ApplicationVersion) ==
    [Name |-> Name, XmiVersion |-> XmiVersion, ApplicationName |-> ApplicationName,
     ApplicationVersion |-> ApplicationVersion]
NoHeader == Header(Absent, Absent, Absent, Absent)

Payload(header, ents, rels) ==
    [Entities |-> ents, Relationships |-> rels, Header |-> header]

\* The four fields of a Model built by XmiModel(): None
NoMetadata == [name |-> None, xmi_version |-> None, application_name |-> None,
               application_version |-> None]

\* A load_from_dict that leaves a field as it is when the payload lacks the key
SetMetadataKeep(md, header) ==
    [name |-> IF header.Name = Absent THEN md.name ELSE header.Name,
     xmi_version |-> IF header.XmiVersion = Absent THEN md.xmi_version
                     ELSE header.XmiVersion,
     application_name |-> IF header.ApplicationName = Absent THEN md.application_name
                          ELSE header.ApplicationName,
     application_version |-> IF header.ApplicationVersion = Absent
                             THEN md.application_version
                             ELSE header.ApplicationVersion]

(* load_from_dict, lines 82-85: self.name = data.get("Name"), and the same *)
(* for the other three fields                                              *)
SetMetadata(md, header) ==
    [name |-> Get(header.Name), xmi_version |-> Get(header.XmiVersion),
     application_name |-> Get(header.ApplicationName),
     application_version |-> Get(header.ApplicationVersion)]

\* What the last step did: the operation, the record it processed and its
\* 0-based index, how many entries it appended to each list, whether an
\* exception left load_from_dict (or the call), and the arguments and result
\* of a direct call (create_point_3d's coordinates, find_entity's id,
\* create_relationship's class, the list find_relationships_by_* returned),
\* and for the first step of load_from_dict the four fields it found.
Last(op, rec, idx, pre, post, raised) ==
    [op |-> op, rec |-> rec, index |-> idx,
     dEnt |-> Len(post.entities) - Len(pre.entities),
     dRel |-> Len(post.relationships) - Len(pre.relationships),
     dErr |-> Len(post.errors) - Len(pre.errors),
     raised |-> raised, c |-> <<0, 0, 0>>, tol |-> 0, result |-> 0, hit |-> FALSE,
     arg |-> Absent, found |-> <<>>, source |-> 0, target |-> 0, name |-> Absent,
     metadata |-> NoMetadata]

SeqsUpTo(S, n) == UNION {[1..k -> S] : k \in 0..n}

Init ==
    /\ entities = <<>>
    /\ relationships = <<>>
    /\ errors = <<>>
    /\ point_cache = <<>>
    /\ points = <<>>
    /\ nextObj = 1
    /\ nextUuid = 1
    /\ pc = "idle"
    /\ data = Payload(NoHeader, <<>>, <<>>)
    /\ index = 0
    /\ loads = 0
    /\ taken = [ent |-> 0, rel |-> 0]
    /\ calls = 0
    /\ start = Bundle
    /\ last = Last("init", NoRecord, 0, Bundle, Bundle, FALSE)
    /\ heap = <<>>
    /\ models = <<>>
    /\ metadata = NoMetadata

SetModel(m) ==
    /\ entities' = m.entities
    /\ relationships' = m.relationships
    /\ errors' = m.errors
    /\ point_cache' = m.point_cache
    /\ points' = m.points
    /\ nextObj' = m.nextObj
    /\ nextUuid' = m.nextUuid

(* model.load_from_dict(data) is called: the top-level keys are one of the *)
(* given headers, Entities and Relationships are lists over the given      *)
(* record sets; the four fields are set before the first loop starts       *)
BeginLoadWith(Headers, EntityRecords, RelRecords, maxEnt, maxRel) ==
    /\ pc = "idle"
    /\ loads < MaxLoads
    /\ \E header \in Headers,
          ents \in SeqsUpTo(EntityRecords, maxEnt - taken.ent),
          rels \in SeqsUpTo(RelRecords, maxRel - taken.rel) :
          /\ data' = Payload(header, ents, rels)
          /\ taken' = [ent |-> taken.ent + Len(ents), rel |-> taken.rel + Len(rels)]
          /\ metadata' = SetMetadata(metadata, header)
    /\ pc' = "entities"
    /\ index' = 0
    /\ loads' = loads + 1
    /\ start' = Bundle
    /\ last' = [Last("begin", NoRecord, 0, Bundle, Bundle, FALSE)
                  EXCEPT !.metadata = metadata]
    /\ UNCHANGED <<models, heap, entities, relationships, errors, point_cache, points, nextObj,
                   nextUuid, calls>>

\* load_from_dict called with a payload that has the two lists only
BeginLoad(EntityRecords, RelRecords, maxEnt, maxRel) ==
    BeginLoadWith({NoHeader}, EntityRecords, RelRecords, maxEnt, maxRel)

\* One iteration of a loop takes effect: r is the Model after it, and whether
\* an exception left load_from_dict
Iterate(op, rec, r) ==
    /\ SetModel(r.m)
    /\ last' = Last(op, rec, index, Bundle, r.m, r.raised)
    /\ pc' = IF r.raised THEN "idle" ELSE pc
    /\ index' = IF r.raised THEN index ELSE index + 1
    /\ UNCHANGED <<metadata, models, heap, data, loads, taken, calls, start>>

(* one iteration of: for index, entity_data in enumerate(data["Entities"]) *)
ProcessEntity ==
    /\ pc = "entities"
    /\ index < Len(data.Entities)
    /\ Iterate("entity", data.Entities[index + 1],
               LoadEntity(Bundle, data.Entities[index + 1], index))

\* A loop over Entities that may be left before its last record
EndEntitiesEarly ==
    /\ pc = "entities"
    /\ index <= Len(data.Entities)
    /\ pc' = "relationships"
    /\ index' = 0
    /\ last' = Last("end_entities", NoRecord, 0, Bundle, Bundle, FALSE)
    /\ UNCHANGED <<metadata, models, heap, entities, relationships, errors, point_cache, points, nextObj,
                   nextUuid, data, loads, taken, calls, start>>

(* the loop over Entities is exhausted; the loop over Relationships starts *)
EndEntities ==
    /\ pc = "entities"
    /\ index = Len(data.Entities)
    /\ pc' = "relationships"
    /\ index' = 0
    /\ last' = Last("end_entities", NoRecord, 0, Bundle, Bundle, FALSE)
    /\ UNCHANGED <<metadata, models, heap, entities, relationships, errors, point_cache, points, nextObj,
                   nextUuid, data, loads, taken, calls, start>>

(* one iteration of: for index, rel_data in enumerate(data["Relationships"]) *)
ProcessRelationship ==
    /\ pc = "relationships"
    /\ index < Len(data.Relationships)
    /\ Iterate("relationship", data.Relationships[index + 1],
               LoadRelationship(Bundle, data.Relationships[index + 1], index))

(* load_from_dict returns                                                  *)
EndLoad ==
    /\ pc = "relationships"
    /\ index = Len(data.Relationships)
    /\ pc' = "idle"
    /\ last' = Last("return", NoRecord, 0, Bundle, Bundle, FALSE)
    /\ UNCHANGED <<metadata, models, heap, entities, relationships, errors, point_cache, points, nextObj,
                   nextUuid, data, index, loads, taken, calls, start>>

(* model.create_point_3d(x, y, z, tolerance) called by the application     *)
CallCreatePoint3D(Coordinates, Tolerances) ==
    /\ pc = "idle"
    /\ calls < MaxCalls
    /\ \E c \in Coordinates, tol \in Tolerances :
          LET r == CreatePoint3D(Bundle, c, tol)
          IN  /\ SetModel(r.m)
              /\ last' = [Last("create_point_3d", NoRecord, 0, Bundle, r.m, FALSE)
                            EXCEPT !.c = c, !.tol = tol, !.result = r.result,
                                   !.hit = CacheHit(Bundle, c, tol)]
    /\ calls' = calls + 1
    /\ UNCHANGED <<metadata, models, heap, pc, data, index, loads, taken, start>>

(* model.find_entity(entity_id) called by the application: result is the   *)
(* handle of the instance returned, 0 for None                             *)
CallFindEntity(Ids) ==
    /\ pc = "idle"
    /\ calls < MaxCalls
    /\ \E entity_id \in Ids :
          last' = [Last("find_entity", NoRecord, 0, Bundle, Bundle, FALSE)
                     EXCEPT !.arg = entity_id,
                            !.result = IF FindEntity(entities, entity_id) = 0 THEN 0
                                       ELSE entities[FindEntity(entities, entity_id)].obj]
    /\ calls' = calls + 1
    /\ UNCHANGED <<metadata, models, heap, entities, relationships, errors, point_cache, points, nextObj,
                   nextUuid, pc, data, index, loads, taken, start>>

(* The application builds an entity instance itself                        *)
ConstructInstance(Instances) ==
    /\ pc = "idle"
    /\ Len(heap) < MaxEntities
    /\ \E i \in Instances :
          /\ SetModel(NewInstance(Bundle, i.cls, i.id, i.c).m)
          /\ heap' = Append(heap, NewInstance(Bundle, i.cls, i.id, i.c).e)
    /\ UNCHANGED <<metadata, models>>
    /\ last' = Last("construct", NoRecord, 0, Bundle, Bundle, FALSE)
    /\ UNCHANGED <<pc, data, index, loads, taken, calls, start>>

(* model.entities.append(instance), for an instance not yet in the list    *)
AppendEntity ==
    /\ pc = "idle"
    /\ \E i \in 1..Len(heap) :
          /\ \A k \in 1..Len(entities) : entities[k].obj # heap[i].obj
          /\ entities' = Append(entities, heap[i])
    /\ last' = Last("append_entity", NoRecord, 0, Bundle, Bundle, FALSE)
    /\ UNCHANGED <<metadata, models, heap, relationships, errors, point_cache, points, nextObj,
                   nextUuid, pc, data, index, loads, taken, calls, start>>

\* The Model, and what to record, after create_relationship's outcome r
AfterCreate(kind, source, target, name, kwargs, r) ==
    /\ SetModel(r.m)
    /\ last' = [Last("create_relationship", kwargs, 0, Bundle, r.m, r.raised)
                  EXCEPT !.arg = kind, !.result = r.result, !.source = source.obj,
                         !.target = target.obj, !.name = name]

(* model.create_relationship(kind, source, target, name=.., **kwargs),     *)
(* source and target any two instances the application holds               *)
CallCreateRelationship(Kinds, Names, Kwargs) ==
    /\ pc = "idle"
    /\ calls < MaxCacheRecords
    /\ \E kind \in Kinds, s, t \in 1..Len(heap), name \in Names, kwargs \in Kwargs :
          AfterCreate(kind, heap[s], heap[t], name, kwargs,
                      CreateRelationship(Bundle, kind, heap[s], heap[t], name, kwargs))
    /\ calls' = calls + 1
    /\ UNCHANGED <<metadata, models, heap, pc, data, index, loads, taken, start>>

(* model.find_relationships_by_source(e) and                               *)
(* model.find_relationships_by_target(e), e an instance the application    *)
(* holds: result is e's handle, found the handles of the list returned     *)
CallFindRelationshipsBy(end) ==
    /\ pc = "idle"
    /\ \E i \in 1..Len(heap) :
          last' = [Last("find_relationships_by_" \o end, NoRecord, 0, Bundle, Bundle, FALSE)
                     EXCEPT !.result = heap[i].obj,
                            !.found = FindRelationshipsBy(Bundle, heap, end, heap[i])]
    /\ UNCHANGED <<metadata, models, heap, entities, relationships, errors, point_cache, points,
                   nextObj, nextUuid, pc, data, index, loads, taken, calls, start>>

\* The manager and the heap after read_xmi_dict's outcome r: the Model
\* variables show the Model the call returned
AfterRead(xmi_dict, r) ==
    /\ IF r.raised
       THEN /\ UNCHANGED <<entities, relationships, errors, point_cache, models>>
            /\ points' = r.m.points
            /\ nextObj' = r.m.nextObj
            /\ nextUuid' = r.m.nextUuid
       ELSE /\ SetModel(r.m)
            /\ models' = Append(models, [entities |-> r.m.entities,
                                         relationships |-> r.m.relationships,
                                         errors |-> r.m.errors])
    /\ data' = xmi_dict
    /\ last' = Last("read_xmi_dict", NoRecord, 0, FreshModel(Bundle), r.m, r.raised)

(* manager.read_xmi_dict(xmi_dict) called by the application               *)
CallReadXmiDict(EntityRecords, RelRecords) ==
    /\ pc = "idle"
    /\ loads < MaxLoads
    /\ \E ents \in SeqsUpTo(EntityRecords, MaxEntities),
          rels \in SeqsUpTo(RelRecords, MaxCacheRecords) :
          AfterRead(Payload(NoHeader, ents, rels),
                    ReadXmiDict(Bundle, Payload(NoHeader, ents, rels)))
    /\ loads' = loads + 1
    /\ UNCHANGED <<metadata, heap, pc, index, taken, calls, start>>

\* The fresh Model after load_from_dict's outcome r: the Model variables
\* show the fresh Model from here on
AfterReload(xmi_dict, r) ==
    /\ SetModel(r.m)
    /\ data' = xmi_dict
    /\ last' = Last("round_trip", NoRecord, 0, FreshModel(Bundle), r.m, r.raised)

(* XmiModel().load_from_dict(model.model_dump(by_alias=True)), once a      *)
(* load_from_dict into the Model has returned                              *)
RoundTrip ==
    /\ pc = "idle"
    /\ last.op = "return"
    /\ calls < MaxCalls
    /\ AfterReload(ModelDump(Bundle), LoadFromDict(FreshModel(Bundle), ModelDump(Bundle)))
    /\ calls' = calls + 1
    /\ UNCHANGED <<metadata, models, heap, pc, index, loads, taken, start>>

---------------------------------------------------------------------------
(* Payload records.                                                        *)

P0 == <<0, 0, 0>>
P0near == <<0, 0, 1>>      \* half a tolerance away from P0: the same bucket
P1 == <<20, 0, 0>>

Point3D(id, c) == [WireRecord("XmiPoint3D", id, "P") EXCEPT !.Coords = c]
PointConnection(id, name, p) ==
    [WireRecord("XmiStructuralPointConnection", id, name) EXCEPT !.Point = p]
Line3D(id, s, e) ==
    [WireRecord("XmiLine3D", id, "L") EXCEPT !.StartPoint = s, !.EndPoint = e]
Arc3D(id, s, e, c) ==
    [WireRecord("XmiArc3D", id, "A") EXCEPT
        !.StartPoint = s, !.EndPoint = e, !.CenterPoint = c]
Material(id, t) == [WireRecord("XmiStructuralMaterial", id, "M") EXCEPT !.MaterialType = t]
Storey(id, elevation) ==
    [WireRecord("XmiStorey", id, "S") EXCEPT
        !.StoreyElevation = elevation, !.StoreyMass = "1.0"]
Scalar == [NoRecord EXCEPT !.shape = "scalar"]
HasGeometry(tag, source, target) ==
    [WireRecord(tag, "r", "hasGeometry") EXCEPT !.Source = source, !.Target = target]

Wall(id) == WireRecord("XmiWall", id, "W")
HasStructuralCurveMember(source, target) ==
    [WireRecord("XmiHasStructuralCurveMember", "r", Absent) EXCEPT
        !.Source = source, !.Target = target]

\* Records that fail, or half fail, in their constructor
IsolationEntities ==
    { Point3D("a", Dict(P0)),
      PointConnection("b", Absent, Dict(P0)),
      Line3D("c", Dict(P0), NoPoint),
      Material("d", "Plastic"),
      Storey("e", Absent) }

IsolationRels == { HasGeometry("XmiHasGeometry", "a", "a"),
                   HasGeometry("XmiHasGeometry", "a", "b") }

\* Records with a missing, unregistered or malformed type tag
TagEntities ==
    { Point3D("a", Dict(P0)),
      WireRecord("NotRegistered", "x", "X"),
      WireRecord(Absent, "x", "X"),
      WireRecord("", "x", "X"),
      WireRecord(TagInt, "x", "X"),
      WireRecord(TagList, "x", "X"),
      Scalar }

TagRels ==
    { HasGeometry("XmiHasGeometry", "a", "a"),
      HasGeometry("NotRegistered", "a", "a"),
      HasGeometry(Absent, "a", "a"),
      HasGeometry(TagInt, "a", "a"),
      Scalar }

\* Entities, two of them with the same ID, and relationships between them
GraphEntities ==
    { Point3D("a", Dict(P0)),
      PointConnection("a", "N", Dict(P0)),
      PointConnection("b", "N", Dict(P0)),
      Line3D("c", Dict(P0), Dict(P1)) }

GraphRels ==
    { HasGeometry("XmiHasGeometry", "b", "a"),
      HasGeometry("XmiHasGeometry", "a", "a"),
      HasGeometry("XmiHasGeometry", "a", "zz"),
      [HasGeometry("XmiHasGeometry", "a", "a") EXCEPT !.Source = Absent] }

\* A valid record of every class, each with an ID, and relationships that
\* name those IDs
IdEntities ==
    { Point3D("a", Dict(P0)),
      PointConnection("b", "N", Dict(P0)),
      Line3D("c", Dict(P0), Dict(P1)),
      Arc3D("d", Dict(P0), Dict(P1), Dict(P0near)),
      Material("e", "Concrete"),
      Storey("f", "3.0") }

IdRels ==
    { HasGeometry("XmiHasGeometry", "b", "a"),
      HasGeometry("XmiHasGeometry", "b", "c"),
      HasGeometry("XmiHasGeometry", "e", "d") }

\* Records that nest or are points
PointEntities ==
    { Point3D("a", Dict(P0)),
      PointConnection("b", "N", Dict(P0)),
      PointConnection("b2", "N", Dict(P0near)),
      Line3D("c", Dict(P0), Dict(P1)),
      Arc3D("d", Dict(P1), Dict(P0), Dict(P0)) }

\* Records that fill the point cache before create_point_3d is called
CacheEntities ==
    { Point3D("a", Dict(P0)),
      PointConnection("b", "N", Dict(P0near)) }

PointRels == { HasGeometry("XmiHasGeometry", "b", "a") }

\* Two records share the id "a"; the ids asked for include one no record has
QueryEntities == { Point3D("a", Dict(P0)),
                   PointConnection("a", "n", Dict(P1)),
                   PointConnection("b", "n", Dict(P0)) }
QueryRels == { HasGeometry("XmiHasGeometry", "b", "a") }
QueryIds == {"a", "b", "zz", None}

\* A physical entity, two that are not, and relationship records that link
\* them: from and to a physical entity, and one with "Name": ""
BridgeEntities == { Wall("w"), Point3D("a", Dict(P0)), Material("d", "Steel") }
BridgeRels ==
    { HasStructuralCurveMember("w", "a"),
      HasStructuralCurveMember("a", "w"),
      HasStructuralCurveMember("d", "d"),
      [HasGeometry("XmiHasGeometry", "w", "a") EXCEPT !.Name = ""] }

\* Records that leave out "Name", with "ID" given, left out or empty
DefaultsEntities ==
    { [Wall("w") EXCEPT !.Name = Absent],
      [Wall(Absent) EXCEPT !.Name = Absent],
      [Wall("") EXCEPT !.Name = Absent],
      [Arc3D(Absent, Dict(P0), Dict(P1), Dict(P0)) EXCEPT !.Name = Absent],
      [Point3D("a", Dict(P0)) EXCEPT !.Name = Absent] }
DefaultsRels == { HasGeometry("XmiHasGeometry", "w", "a") }

\* Instances the application builds: a point and a wall, each of which it
\* may build twice (two instances with equal coordinates, or field values)
Instances == { [cls |-> "XmiPoint3D", id |-> Absent, c |-> P0],
               [cls |-> "XmiWall", id |-> "w", c |-> P0] }
Kinds == {"XmiBaseRelationship", "XmiHasGeometry"}
Names == {None, "n"}
Kwargs == {NoRecord}

\* Records for the manager: valid ones, one without a type tag, one with a
\* tag no class is registered under, and tags that are no strings
ManagerEntities ==
    { Point3D("a", Dict(P0)),
      Wall("w"),
      [Wall("x") EXCEPT !.EntityType = Absent],
      [Wall("x") EXCEPT !.EntityType = "XmiRoof"],
      [Wall("x") EXCEPT !.EntityType = TagInt],
      [Wall("x") EXCEPT !.EntityType = TagList] }
ManagerRels == { HasGeometry("XmiHasGeometry", "w", "a") }

\* Material records whose MaterialType is a member's value, a member's value
\* in another case, and no member's value in any case
EnumEntities ==
    { Material("m1", "Concrete"),
      Material("m2", "concrete"),
      Material("m3", "STEEL"),
      Material("m4", "Plastic") }
EnumRels == { HasGeometry("XmiHasGeometry", "m1", "m1") }

\* Payloads with every top-level key, with none, and with "Name" only
Headers == { NoHeader,
             Header("Model A", "1.0", "App", "2"),
             Header("Model B", Absent, Absent, Absent) }

\* A payload every record of which loads
RoundTripEntities == { Wall("w"), Point3D("a", Dict(P0)) }
RoundTripRels == { HasGeometry("XmiHasGeometry", "w", "a") }

Coordinates == {P0, P0near, <<0, 0, 2>>}
Tolerances == {DefaultTolerance, 2 * DefaultTolerance}

---------------------------------------------------------------------------
(* Specifications.                                                         *)

Load(EntityRecords, RelRecords, maxEnt, maxRel) ==
    \/ BeginLoad(EntityRecords, RelRecords, maxEnt, maxRel)
    \/ ProcessEntity
    \/ EndEntities
    \/ ProcessRelationship
    \/ EndLoad

NextIsolation == Load(IsolationEntities, IsolationRels, MaxEntities, MaxRels)
SpecIsolation == Init /\ [][NextIsolation]_vars

NextTags == Load(TagEntities, TagRels, MaxEntities, MaxRels)
SpecTags == Init /\ [][NextTags]_vars

NextGraph == Load(GraphEntities, GraphRels, MaxEntities, MaxRels)
SpecGraph == Init /\ [][NextGraph]_vars

NextIds == Load(IdEntities, IdRels, MaxEntities, MaxRels)
SpecIds == Init /\ [][NextIds]_vars

NextPoints == Load(PointEntities, PointRels, MaxPointEntities, MaxRels)
SpecPoints == Init /\ [][NextPoints]_vars

NextBridge == Load(BridgeEntities, BridgeRels, MaxEntities, MaxCacheRecords)
SpecBridge == Init /\ [][NextBridge]_vars

NextDefaults == Load(DefaultsEntities, DefaultsRels, MaxEntities, MaxCacheRecords)
SpecDefaults == Init /\ [][NextDefaults]_vars

NextModel ==
    \/ ConstructInstance(Instances)
    \/ AppendEntity
    \/ CallCreateRelationship(Kinds, Names, Kwargs)
SpecModel == Init /\ [][NextModel]_vars

NextRelQueries ==
    \/ NextModel
    \/ CallFindRelationshipsBy("source")
    \/ CallFindRelationshipsBy("target")
SpecRelQueries == Init /\ [][NextRelQueries]_vars

NextManager == CallReadXmiDict(ManagerEntities, ManagerRels)
SpecManager == Init /\ [][NextManager]_vars

NextRoundTrip ==
    \/ Load(RoundTripEntities, RoundTripRels, MaxEntities, MaxCacheRecords)
    \/ RoundTrip
SpecRoundTrip == Init /\ [][NextRoundTrip]_vars

NextEnums == Load(EnumEntities, EnumRels, MaxEntities, MaxCacheRecords)
SpecEnums == Init /\ [][NextEnums]_vars

NextMetadata ==
    \/ BeginLoadWith(Headers, IsolationEntities, IsolationRels, MaxEntities,
                     MaxCacheRecords)
    \/ ProcessEntity
    \/ EndEntities
    \/ ProcessRelationship
    \/ EndLoad
SpecMetadata == Init /\ [][NextMetadata]_vars

NextLifetime ==
    \/ Load(CacheEntities, PointRels, MaxEntities, MaxCacheRecords)
    \/ CallCreatePoint3D(Coordinates, Tolerances)
SpecLifetime == Init /\ [][NextLifetime]_vars

NextQueries ==
    \/ Load(QueryEntities, QueryRels, MaxEntities, MaxCacheRecords)
    \/ CallFindEntity(QueryIds)
SpecQueries == Init /\ [][NextQueries]_vars

Next == Load(CacheEntities, PointRels, MaxCacheRecords, MaxCacheRecords)
        \/ CallCreatePoint3D(Coordinates, Tolerances)
Spec == Init /\ [][Next]_vars

---------------------------------------------------------------------------
(* Properties. The entities of the running (or last) load_from_dict call   *)
(* are those past start.entities; the same for the other lists.            *)

NewEntities == SubSeq(entities, Len(start.entities) + 1, Len(entities))
NewRelationships ==
    SubSeq(relationships, Len(start.relationships) + 1, Len(relationships))
NewErrors == SubSeq(errors, Len(start.errors) + 1, Len(errors))

LastError == errors[Len(errors)]

\* msg contains part, for the messages the loader writes
Contains(msg, part) ==
    \E pre \in {"", "Failed to instantiate "},
       suf \in {"", " entity for relationship.", "."} : msg = pre \o part \o suf

\* C1: every entity record that load_from_dict processes ends in exactly one
\* of two outcomes: exactly one instance appended to Model.entities and
\* nothing appended to Model.errors, or nothing appended to Model.entities
\* and at least one entry appended to Model.errors.
C1_ExactlyOneOutcome ==
    last.op = "entity" =>
        \/ last.dEnt = 1 /\ last.dErr = 0
        \/ last.dEnt = 0 /\ last.dErr >= 1

\* A record of a registered class whose constructor yields no instance, and
\* one whose constructor yields an instance and reports nothing.
Fails(rec) ==
    /\ rec.shape = "map"
    /\ rec.EntityType \in ENTITY_CLASS_MAPPING
    /\ ~Construct(start, rec.EntityType, rec).built

Valid(rec) ==
    /\ rec.shape = "map"
    /\ rec.EntityType \in ENTITY_CLASS_MAPPING
    /\ LET r == Construct(start, rec.EntityType, rec)
       IN  r.built /\ r.errors = <<>>

\* C2: when load_from_dict returns from a payload of n entity records (and
\* no relationship records) of which exactly one fails in its constructor
\* and the others are valid, the call has added n - 1 entities and exactly
\* one error, an ErrorLog carrying the failing record's 0-based index and
\* its EntityType.
C2_PartialFailureIsolated ==
    (last.op = "return" /\ data.Relationships = <<>>) =>
        LET recs == data.Entities
            failing == {i \in 1..Len(recs) : Fails(recs[i])}
            valid == {i \in 1..Len(recs) : Valid(recs[i])}
        IN  (Cardinality(failing) = 1 /\ Cardinality(valid) = Len(recs) - 1) =>
                LET i == CHOOSE j \in failing : TRUE
                IN  /\ Len(NewEntities) = Len(recs) - 1
                    /\ Len(NewErrors) = 1
                    /\ NewErrors[1].cls = "ErrorLog"
                    /\ NewErrors[1].index = i - 1
                    /\ NewErrors[1].entity_type = recs[i].EntityType

NoEntityWithId(entity_id) == \A i \in 1..Len(entities) : entities[i].id # entity_id

\* C3: the source and the target of every relationship in
\* Model.relationships are instances present in Model.entities; and a
\* relationship record of a registered class whose Source or Target is the id
\* of no entity adds no relationship and adds exactly one ErrorLog, carrying
\* the record's EntityType and a message containing "Missing source or target".
C3_ReferentialIntegrity ==
    /\ \A k \in 1..Len(relationships) :
          /\ \E i \in 1..Len(entities) : entities[i].obj = relationships[k].source
          /\ \E j \in 1..Len(entities) : entities[j].obj = relationships[k].target
    /\ ( /\ last.op = "relationship"
         /\ last.rec.EntityType \in RELATIONSHIP_CLASS_MAPPING
         /\ \/ NoEntityWithId(Get(last.rec.Source))
            \/ NoEntityWithId(Get(last.rec.Target)) )
       => /\ last.dRel = 0
          /\ last.dErr = 1
          /\ LastError.cls = "ErrorLog"
          /\ LastError.entity_type = last.rec.EntityType
          /\ Contains(LastError.message, "Missing source or target")

\* C3 happens: with a relationship already resolved, a record naming an
\* unknown Target has just been turned into an ErrorLog
C3_Witness ==
    /\ Len(relationships) >= 1
    /\ last.op = "relationship"
    /\ last.rec.Target = "zz"
    /\ ~NoEntityWithId(last.rec.Source)
    /\ last.dErr = 1

\* C4: an entity built from a record that carries an ID has that ID as its
\* id, whatever its class.
C4_IdentifierPreserved ==
    (last.op = "entity" /\ last.dEnt = 1 /\ last.rec.ID # Absent) =>
        entities[Len(entities)].id = last.rec.ID

\* C5: a record (of either list) whose EntityType is missing or is not in
\* the registry adds no entity and no relationship and adds exactly one
\* ErrorLog with the record's index and its tag exactly as given, "Unknown"
\* when the tag is missing; and the loop goes on.
C5_UnrecognizedTagLogged ==
    ( /\ last.op \in {"entity", "relationship"}
      /\ last.rec.shape = "map"
      /\ last.rec.EntityType \notin (IF last.op = "entity"
                                     THEN ENTITY_CLASS_MAPPING
                                     ELSE RELATIONSHIP_CLASS_MAPPING) )
    => /\ ~last.raised
       /\ last.dEnt = 0 /\ last.dRel = 0
       /\ last.dErr = 1
       /\ LastError.cls = "ErrorLog"
       /\ LastError.index = last.index
       /\ LastError.entity_type =
              IF last.rec.EntityType = Absent THEN "Unknown" ELSE last.rec.EntityType

\* C6: no step of load_from_dict lets an exception out, whatever the record
\* it processes.
C6_NoErrorEscapes == ~last.raised

\* The relationships that m holds past those of start, each as its class,
\* its name and the id and class of its two endpoints
EntityOf(m, h) == m.entities[CHOOSE i \in 1..Len(m.entities) : m.entities[i].obj = h]

Resolved(m) ==
    { LET r == m.relationships[k]
      IN  <<r.cls, r.name, EntityOf(m, r.source).id, EntityOf(m, r.source).cls,
            EntityOf(m, r.target).id, EntityOf(m, r.target).cls>> :
      k \in (Len(start.relationships) + 1)..Len(m.relationships) }

Orderings(n) == {f \in [1..n -> 1..n] : \A i, j \in 1..n : f[i] = f[j] => i = j}

Permuted(recs, f) == [i \in 1..Len(recs) |-> recs[f[i]]]

\* The ids of the payload's entity records are unique in the model
UniqueIds ==
    /\ \A i, j \in 1..Len(data.Entities) :
          i # j => data.Entities[i].ID # data.Entities[j].ID
    /\ \A i \in 1..Len(data.Entities), k \in 1..Len(start.entities) :
          start.entities[k].id # data.Entities[i].ID

\* C7: load_from_dict builds no relationship while it processes entity
\* records, and processes relationship records only when every entity
\* record of the payload has been processed; so, with ids unique in the
\* model, every permutation of the Entities list leaves the same set of
\* resolved relationships.
C7_TwoPhaseResolution ==
    /\ pc = "entities" => relationships = start.relationships
    /\ pc = "relationships" =>
          entities = RunEntities(start, data.Entities, 0).m.entities
    /\ (last.op = "return" /\ UniqueIds) =>
          \A f \in Orderings(Len(data.Entities)) :
              Resolved(LoadFromDict(start, [data EXCEPT !.Entities =
                                               Permuted(data.Entities, f)]).m)
                  = Resolved(Bundle)

\* C7 happens: a load of two entity records with unique ids has returned
\* with a relationship whose source was built from the later record and
\* whose target from the earlier one
C7_Witness ==
    /\ last.op = "return"
    /\ UniqueIds
    /\ Len(data.Entities) = 2
    /\ \E k \in 1..Len(NewRelationships) :
          EntityOf(Bundle, NewRelationships[k].source).index
              > EntityOf(Bundle, NewRelationships[k].target).index

\* One call of create_point_3d, from the Model before it to the Model after it
C8_Call ==
    calls' = calls + 1 =>
        LET c == last'.c
            tol == last'.tol
            key == PointCacheKey(c, tol)
            p == last'.result
        IN  IF /\ key \in DOMAIN point_cache
               /\ WithinTolerance(points[point_cache[key]], c, tol)
            THEN /\ p = point_cache[key]
                 /\ \A k \in DOMAIN point_cache : point_cache[k] = p => k[4] = tol
                 /\ point_cache' = point_cache
                 /\ points' = points
            ELSE /\ p \notin DOMAIN points
                 /\ points' = Put(points, p, c)
                 /\ point_cache' = Put(point_cache, key, p)

\* C8: create_point_3d(x, y, z, tolerance) returns the point cached under
\* the key (quantized x, y, z, tolerance) when there is one within the
\* tolerance of (x, y, z) on every axis, and changes nothing; otherwise it
\* returns a new point with those coordinates and stores it under that key.
\* The tolerance is part of the key: no call returns a point cached under
\* another tolerance.
C8_LookupOrCreate == [][C8_Call]_vars

\* C8 happens: a call has returned a cached point whose coordinates are not
\* those of the call, after a call with the same coordinates and another
\* tolerance made a point of its own
C8_Witness ==
    /\ last.op = "create_point_3d"
    /\ last.hit
    /\ points[last.result] # last.c
    /\ \E k \in DOMAIN point_cache :
          /\ k[4] # last.tol
          /\ points[point_cache[k]] = last.c

\* The nested points of an entity built by the running (or last) load: each
\* raw coordinate map of its record with the instance the field refers to
NestedPoints(e) ==
    LET rec == data.Entities[e.index + 1]
    IN  { f \in { <<rec.Point, e.point>>, <<rec.StartPoint, e.start_point>>,
                  <<rec.EndPoint, e.end_point>>, <<rec.CenterPoint, e.center_point>> } :
          f[1].k = "dict" /\ f[2] # 0 }

\* C9: two nested point fields that one load_from_dict call built from raw
\* coordinate maps with identical X, Y and Z refer to the same instance.
C9_NestedPointsShared ==
    \A i, j \in 1..Len(NewEntities) :
        \A a \in NestedPoints(NewEntities[i]), b \in NestedPoints(NewEntities[j]) :
            a[1].c = b[1].c => a[2] = b[2]

TopLevelPoints == {i \in 1..Len(NewEntities) : NewEntities[i].cls = "XmiPoint3D"}

Key(i) == PointCacheKey(points[NewEntities[i].obj], DefaultTolerance)

\* a top-level XmiPoint3D, once built, is the cache's entry for its key
Registered ==
    (last.op = "entity" /\ last.dEnt = 1 /\ last.rec.EntityType = "XmiPoint3D") =>
        LET e == entities[Len(entities)]
            key == PointCacheKey(points[e.obj], DefaultTolerance)
        IN  key \in DOMAIN point_cache /\ point_cache[key] = e.obj

---------------------------------------------------------------------------
(* C12: find_entity(id) returns the first element of Model.entities, in    *)
(* list order, whose id equals the argument, None when no element has that *)
(* id (it never raises), and leaves the Model as it was.                   *)
C12_Call ==
    last'.op = "find_entity" =>
       /\ UNCHANGED <<entities, relationships, errors, point_cache, points>>
       /\ ~last'.raised
       /\ IF \A i \in 1..Len(entities) : entities[i].id # last'.arg
          THEN last'.result = 0
          ELSE \E i \in 1..Len(entities) :
                  /\ entities[i].id = last'.arg
                  /\ \A j \in 1..(i - 1) : entities[j].id # last'.arg
                  /\ last'.result = entities[i].obj

C12_FindEntityFirstMatch == [][C12_Call]_vars

\* find_entity was asked for an id that two entities have, and returned one
C12_Witness ==
    /\ last.op = "find_entity"
    /\ last.result # 0
    /\ Cardinality({i \in 1..Len(entities) : entities[i].id = last.arg}) = 2

---------------------------------------------------------------------------
(* C16: the error log is append-only: across any sequence of load_from_dict *)
(* calls on one Model, Model.errors before a step is a prefix of            *)
(* Model.errors after the step; no entry is removed, reordered or modified. *)
C16_Step ==
    /\ Len(errors) <= Len(errors')
    /\ \A i \in 1..Len(errors) : errors'[i] = errors[i]

C16_ErrorsAppendOnly == [][C16_Step]_vars

\* The second load_from_dict call on the Model has just appended an entry
\* after the entries of the first call
C16_Witness ==
    /\ loads = 2
    /\ last.dErr = 1
    /\ Len(start.errors) >= 1
    /\ Len(errors) > Len(start.errors)

---------------------------------------------------------------------------
(* C13: an XmiHasStructuralCurveMember whose source is not an              *)
(* XmiBasePhysicalEntity, or whose target is not an                        *)
(* XmiStructuralCurveMember, is not built: when Phase 2 of load_from_dict  *)
(* meets such a record and both endpoints resolve, the constructor raises, *)
(* no relationship is appended and exactly one ErrorLog entry with the     *)
(* record's type tag and index is appended.                                *)
C13_Violates(rec) ==
    \E i, j \in 1..Len(entities) :
       /\ entities[i].id = rec.Source
       /\ \A k \in 1..(i - 1) : entities[k].id # rec.Source
       /\ entities[j].id = rec.Target
       /\ \A k \in 1..(j - 1) : entities[k].id # rec.Target
       /\ \/ entities[i].cls # "XmiWall"
          \/ entities[j].cls # "XmiStructuralCurveMember"

---------------------------------------------------------------------------
(* C14: every relationship of the Model has a non-empty name; in           *)
(* particular a wire record whose "Name" is the empty string never yields  *)
(* a relationship with an empty name.                                      *)
C14_NameNonEmpty ==
    \A i \in 1..Len(relationships) :
       /\ relationships[i].name # ""
       /\ relationships[i].name # None
       /\ relationships[i].name # Absent

---------------------------------------------------------------------------
(* C15: entity defaulting. An entity built from a record that leaves out   *)
(* "ID" gets a fresh identifier no other entity has, and an entity built   *)
(* from a record that leaves out "Name" has name = id, whatever the record *)
(* gave for "ID".                                                          *)
C15_DefaultsIndependent ==
    (last.op = "entity" /\ last.dEnt = 1) =>
       LET e == entities[Len(entities)]
       IN  /\ last.rec.ID = Absent =>
                /\ e.id \notin {Absent, None, ""}
                /\ \A i \in 1..(Len(entities) - 1) : entities[i].id # e.id
           /\ last.rec.Name = Absent => e.name = e.id
           /\ e.entity_type = e.cls

---------------------------------------------------------------------------
(* C17: find_relationships_by_source(e) returns exactly the relationships  *)
(* whose source is the very instance e, and find_relationships_by_target(e) *)
(* exactly those whose target is the very instance e, in list order; a     *)
(* relationship whose endpoint is another instance is never returned.      *)
C17_Expected(end) ==
    LET same(r) == r[end] = last.result
        rels == SelectSeq(relationships, same)
    IN  [k \in 1..Len(rels) |-> rels[k].obj]

C17_ByIdentity ==
    /\ last.op = "find_relationships_by_source" => last.found = C17_Expected("source")
    /\ last.op = "find_relationships_by_target" => last.found = C17_Expected("target")

---------------------------------------------------------------------------
(* C18: create_relationship on success appends exactly one new             *)
(* relationship of the requested class to the end of Model.relationships   *)
(* and returns that instance; when the constructor fails (a target of the  *)
(* wrong type, no name) it raises and Model.relationships is unchanged;    *)
(* Model.entities is unchanged in both cases.                              *)
C18_MustFail ==
    \/ /\ last'.arg = "XmiHasGeometry"
       /\ InstanceOf(heap, last'.target).cls # "XmiPoint3D"
    \/ /\ last'.arg = "XmiBaseRelationship"
       /\ last'.name = None

C18_Call ==
    last'.op = "create_relationship" =>
       /\ entities' = entities
       /\ last'.raised <=> C18_MustFail
       /\ IF last'.raised
          THEN relationships' = relationships
          ELSE /\ Len(relationships') = Len(relationships) + 1
               /\ \A k \in 1..Len(relationships) : relationships'[k] = relationships[k]
               /\ relationships'[Len(relationships')].cls = last'.arg
               /\ relationships'[Len(relationships')].obj = last'.result
               /\ relationships'[Len(relationships')].source = last'.source
               /\ relationships'[Len(relationships')].target = last'.target
               /\ \A k \in 1..Len(relationships) : relationships[k].obj # last'.result

---------------------------------------------------------------------------
(* C19: after any sequence of create_relationship calls every relationship *)
(* of the Model has a source and a target that are elements of             *)
(* Model.entities.                                                         *)
C19_EndpointsInModel ==
    \A i \in 1..Len(relationships) :
       /\ \E k \in 1..Len(entities) : entities[k].obj = relationships[i].source
       /\ \E k \in 1..Len(entities) : entities[k].obj = relationships[i].target

---------------------------------------------------------------------------
(* C20: read_xmi_dict builds a fresh Model on every call: it never raises  *)
(* on a record whose EntityType is missing or unregistered but logs it in  *)
(* the returned Model (one error class for missing, another for            *)
(* unregistered), the returned Model holds only what the payload produced, *)
(* exactly one Model is appended to manager.models and the Models of       *)
(* earlier calls are left as they were.                                    *)
C20_Count(seq, Test(_)) == Cardinality({i \in 1..Len(seq) : Test(seq[i])})

C20_Call ==
    last'.op = "read_xmi_dict" =>
       LET items == data'.Entities \o data'.Relationships
           missing(rec) == ~Truthy(Get(rec.EntityType))
           unregistered(rec) == /\ Truthy(Get(rec.EntityType))
                                /\ rec.EntityType \notin ENTITY_CLASS_MAPPING
                                /\ rec.EntityType \notin RELATIONSHIP_CLASS_MAPPING
           isMissing(e) == e.cls = "XmiMissingRequiredAttributeError"
           isUnregistered(e) == e.cls = "XmiMissingReferenceInstanceError"
       IN  /\ ~last'.raised
           /\ Len(models') = Len(models) + 1
           /\ \A k \in 1..Len(models) : models'[k] = models[k]
           /\ models'[Len(models')] = [entities |-> entities',
                                       relationships |-> relationships',
                                       errors |-> errors']
           /\ \A i \in 1..Len(entities') :
                 /\ \E k \in 1..Len(data'.Entities) : data'.Entities[k].ID = entities'[i].id
                 /\ \A k \in 1..Len(models) : \A j \in 1..Len(models[k].entities) :
                       models[k].entities[j].obj # entities'[i].obj
           /\ C20_Count(errors', isMissing) = C20_Count(items, missing)
           /\ C20_Count(errors', isUnregistered) = C20_Count(items, unregistered)

C20_FreshModelPerCall == [][C20_Call]_vars

---------------------------------------------------------------------------
(* C11: for a payload that loads with no errors, loading it, dumping the   *)
(* Model by alias and loading the dump into a fresh Model yields an entity *)
(* list and a relationship list equal, by id and field values, to those of *)
(* the first load, and no errors.                                          *)
C11_SameEntity(a, b) ==
    /\ a.cls = b.cls /\ a.id = b.id /\ a.name = b.name
    /\ a.entity_type = b.entity_type
    /\ a.cls = "XmiPoint3D" => points'[b.obj] = points[a.obj]

C11_SameRelationship(a, b) ==
    /\ a.cls = b.cls /\ a.id = b.id /\ a.name = b.name
    /\ a.entity_type = b.entity_type
    /\ EntityOf(Bundle, a.source).id = InstanceOf(entities', b.source).id
    /\ EntityOf(Bundle, a.target).id = InstanceOf(entities', b.target).id

C11_Call ==
    (last'.op = "round_trip" /\ errors = <<>> /\ loads = 1) =>
       /\ ~last'.raised
       /\ errors' = <<>>
       /\ Len(entities') = Len(entities)
       /\ \A i \in 1..Len(entities) : C11_SameEntity(entities[i], entities'[i])
       /\ Len(relationships') = Len(relationships)
       /\ \A k \in 1..Len(relationships) :
             C11_SameRelationship(relationships[k], relationships'[k])

C11_RoundTrip == [][C11_Call]_vars

---------------------------------------------------------------------------
(* C30: create_relationship(kind, source, target, name=n) with a non-empty *)
(* n returns a relationship whose name is n, for every relationship kind,  *)
(* the base kind and the concrete variants alike.                          *)
C30_NameKept ==
    (last.op = "create_relationship" /\ ~last.raised /\ Truthy(last.name)) =>
       /\ relationships[Len(relationships)].obj = last.result
       /\ relationships[Len(relationships)].name = last.name

---------------------------------------------------------------------------
(* C23: an enumerated field of an entity record is resolved by exact value *)
(* first and by case-insensitive match second: a constructor-from-map      *)
(* given a value that equals a member's value when case is ignored builds  *)
(* the entity with that member; only a value that matches no member even   *)
(* case-insensitively yields no entity and an error naming the enum type   *)
(* and the offending input.                                                *)
C23_CaseInsensitiveEnum ==
    (/\ last.op = "entity"
     /\ last.rec.EntityType = "XmiStructuralMaterial"
     /\ last.rec.MaterialType # Absent)
    => IF EnumMissing(last.rec.MaterialType) # None
       THEN /\ last.dEnt = 1
            /\ last.dErr = 0
            /\ entities[Len(entities)].material_type = EnumMissing(last.rec.MaterialType)
       ELSE /\ last.dEnt = 0
            /\ \E i \in (Len(errors) - last.dErr + 1)..Len(errors) :
                   errors[i].message =
                       "Invalid material_type: Invalid XmiStructuralMaterialTypeEnum value: "
                           \o last.rec.MaterialType

---------------------------------------------------------------------------
(* C29: each load_from_dict call overwrites the Model's name, xmi_version, *)
(* application_name and application_version with the payload's Name,       *)
(* XmiVersion, ApplicationName and ApplicationVersion, None where the      *)
(* payload lacks the key even if an earlier load had set the field; the    *)
(* fields are set before any record is processed and stay so whatever      *)
(* happens to the records.                                                 *)
C29_MetadataOverwritten ==
    loads >= 1 =>
       /\ metadata.name = Get(data.Header.Name)
       /\ metadata.xmi_version = Get(data.Header.XmiVersion)
       /\ metadata.application_name = Get(data.Header.ApplicationName)
       /\ metadata.application_version = Get(data.Header.ApplicationVersion)

\* The second load_from_dict call, with a payload that has "Name" only, has
\* just started on a Model whose four fields the first call had set
C29_Witness ==
    /\ loads = 2
    /\ last.op = "begin"
    /\ last.metadata.xmi_version = "1.0"
    /\ last.metadata.name = "Model A"
    /\ data.Header.XmiVersion = Absent
    /\ metadata.xmi_version = None
    /\ metadata.name = "Model B"

---------------------------------------------------------------------------
(* C24: order preservation. After load_from_dict into an empty Model,      *)
(* Model.entities lists the entities built, each from the record at its    *)
(* index, in the order of their records in Entities, and                   *)
(* Model.relationships lists the relationships built in the order of their *)
(* records in Relationships; a step that builds one puts it at the end.    *)
C24_OrderPreserved ==
    (start.entities = <<>> /\ start.relationships = <<>> /\ loads >= 1) =>
       /\ \A i, j \in 1..Len(entities) :
             i < j => entities[i].index < entities[j].index
       /\ \A i \in 1..Len(entities) :
             /\ entities[i].index < Len(data.Entities)
             /\ entities[i].cls = data.Entities[entities[i].index + 1].EntityType
       /\ \A i, j \in 1..Len(relationships) :
             i < j => relationships[i].index < relationships[j].index
       /\ \A k \in 1..Len(relationships) :
             /\ relationships[k].index < Len(data.Relationships)
             /\ relationships[k].cls =
                    data.Relationships[relationships[k].index + 1].EntityType
             /\ EntityOf(Bundle, relationships[k].source).id =
                    data.Relationships[relationships[k].index + 1].Source
       /\ (last.op = "entity" /\ last.dEnt = 1) =>
             entities[Len(entities)].index = last.index
       /\ (last.op = "relationship" /\ last.dRel = 1) =>
             relationships[Len(relationships)].index = last.index

\* A load into an empty Model has returned: the first entity record and
\* the first relationship record had failed, the second of each was built
C24_Witness ==
    /\ last.op = "return"
    /\ loads = 1
    /\ Len(data.Entities) = 2
    /\ Len(entities) = 1
    /\ entities[1].index = 1
    /\ Len(data.Relationships) = 2
    /\ Len(relationships) = 1
    /\ relationships[1].index = 1

---------------------------------------------------------------------------
(* C25: load_from_dict on finite lists is left only when every entity      *)
(* record and then every relationship record has been examined, each once  *)
(* and in order; no record is skipped or revisited because an earlier      *)
(* record failed.                                                          *)
C25_EveryRecordExamined ==
    /\ (last.op = "entity" /\ ~last.raised) =>
          /\ last.rec = data.Entities[last.index + 1]
          /\ pc = "entities" /\ index = last.index + 1
    /\ (last.op = "relationship" /\ ~last.raised) =>
          /\ last.rec = data.Relationships[last.index + 1]
          /\ pc = "relationships" /\ index = last.index + 1
    /\ (last.op = "end_entities") => last.index = 0 /\ index = 0
    /\ (pc = "idle" /\ loads >= 1) =>
          /\ last.op = "return"
          /\ index = Len(data.Relationships)

---------------------------------------------------------------------------
(* C26: across successive load_from_dict calls on one Model, the entities  *)
(* and relationships the Model held when a call started stay, in order, a  *)
(* prefix of its lists, and no relationship built by an earlier call has   *)
(* an endpoint added by the later call; a relationship record of the later *)
(* call may resolve against an entity of an earlier call.                  *)
C26_EarlierLoadsKept ==
    /\ Len(start.entities) <= Len(entities)
    /\ \A i \in 1..Len(start.entities) : entities[i] = start.entities[i]
    /\ Len(start.relationships) <= Len(relationships)
    /\ \A k \in 1..Len(start.relationships) :
          /\ relationships[k] = start.relationships[k]
          /\ \E i \in 1..Len(start.entities) :
                 entities[i].obj = relationships[k].source
          /\ \E j \in 1..Len(start.entities) :
                 entities[j].obj = relationships[k].target
    /\ \A k \in (Len(start.relationships) + 1)..Len(relationships) :
          /\ \E i \in 1..Len(entities) : entities[i].obj = relationships[k].source
          /\ \E j \in 1..Len(entities) : entities[j].obj = relationships[k].target

\* The second call has just built a relationship from an entity of the
\* first call to an entity of its own
C26_Witness ==
    /\ loads = 2
    /\ last.op = "relationship"
    /\ last.dRel = 1
    /\ \E i \in 1..Len(start.entities) :
          entities[i].obj = relationships[Len(relationships)].source
    /\ \E j \in (Len(start.entities) + 1)..Len(entities) :
          entities[j].obj = relationships[Len(relationships)].target

---------------------------------------------------------------------------
(* C22: duplicate identifiers are not rejected. When a payload loaded into *)
(* an empty Model has two valid entity records with one ID, both are built *)
(* as two distinct entities and neither logs an error, find_entity of that *)
(* ID returns the one built from the earlier record, and every             *)
(* relationship built from a record naming that ID has that earlier entity *)
(* as the endpoint, never the later one.                                   *)
C22_Pair(i, j) ==
    LET ID == data.Entities[i].ID
    IN  /\ \A e \in 1..Len(errors) : errors[e].entity_type \in RELATIONSHIP_CLASS_MAPPING
        /\ \E a, b \in 1..Len(entities) :
              /\ entities[a].index = i - 1
              /\ entities[b].index = j - 1
              /\ entities[a].obj # entities[b].obj
              /\ FindEntity(entities, ID) = a
              /\ \A k \in 1..Len(relationships) :
                    LET rec == data.Relationships[relationships[k].index + 1]
                    IN  /\ rec.Source = ID => relationships[k].source = entities[a].obj
                        /\ rec.Target = ID => relationships[k].target = entities[a].obj

C22_DuplicateIdsKept ==
    (last.op = "return" /\ loads = 1 /\ \A i \in 1..Len(data.Entities) : Valid(data.Entities[i]))
    => \A i, j \in 1..Len(data.Entities) :
          (/\ i < j
           /\ data.Entities[i].ID # Absent
           /\ data.Entities[i].ID = data.Entities[j].ID
           /\ \A h \in 1..(i - 1) : data.Entities[h].ID # data.Entities[i].ID)
          => C22_Pair(i, j)

---------------------------------------------------------------------------
(* C27: bucket-local tolerance. For one tolerance and with no              *)
(* _register_point in between, two create_point_3d calls return the same   *)
(* instance if and only if their coordinates quantize to the same integer  *)
(* triple; two requests less than the tolerance apart on an axis that      *)
(* round to adjacent buckets return two distinct instances.                *)
C27_Calls ==
    (/\ last.op = "create_point_3d"
     /\ last'.op = "create_point_3d"
     /\ last'.tol = last.tol)
    => (last'.result = last.result
           <=> \A axis \in 1..3 : Quantize(last'.c[axis], last.tol)
                                      = Quantize(last.c[axis], last.tol))

C27_BucketLocal == [][C27_Calls]_vars

\* Two calls half a tolerance apart on one axis have made two points, in
\* adjacent buckets
C27_Witness ==
    /\ last.op = "create_point_3d"
    /\ calls = 2
    /\ loads = 0
    /\ \E j, k \in DOMAIN point_cache :
          /\ j[4] = k[4] /\ k[3] = j[3] + 1
          /\ point_cache[j] # point_cache[k]
          /\ Abs(points[point_cache[j]][3] - points[point_cache[k]][3]) < k[4]

---------------------------------------------------------------------------
(* C28: point-cache invariant. Every cache entry with key (qx, qy, qz,     *)
(* tol) holds a point whose coordinates quantize under tol to (qx, qy,     *)
(* qz); so whenever create_point_3d finds an entry at the requested key    *)
(* the entry is within tolerance of the request and is returned; and an    *)
(* existing entry is replaced only by _register_point, which load_from_dict *)
(* calls for a top-level XmiPoint3D.                                       *)
C28_Step ==
    /\ \A k \in DOMAIN point_cache' :
          PointCacheKey(points'[point_cache'[k]], k[4]) = k
    /\ last'.op = "create_point_3d" =>
          (PointCacheKey(last'.c, last'.tol) \in DOMAIN point_cache =>
              /\ WithinTolerance(points[point_cache[PointCacheKey(last'.c, last'.tol)]],
                                 last'.c, last'.tol)
              /\ last'.result = point_cache[PointCacheKey(last'.c, last'.tol)]
              /\ point_cache' = point_cache)
    /\ \A k \in DOMAIN point_cache :
          /\ k \in DOMAIN point_cache'
          /\ point_cache'[k] # point_cache[k] =>
                /\ last'.op = "entity"
                /\ last'.rec.EntityType = "XmiPoint3D"
                /\ point_cache'[k] = entities'[Len(entities')].obj

C28_CacheInvariant == [][C28_Step]_vars

\* load_from_dict has just registered a top-level point over the entry a
\* create_point_3d call had made, and the entry still quantizes to its key
C28_Witness ==
    /\ last.op = "entity"
    /\ last.rec.EntityType = "XmiPoint3D"
    /\ calls >= 1
    /\ \E k \in DOMAIN start.point_cache :
          /\ point_cache[k] # start.point_cache[k]
          /\ point_cache[k] = entities[Len(entities)].obj
          /\ PointCacheKey(points[point_cache[k]], k[4]) = k

---------------------------------------------------------------------------
(* C21: the point cache belongs to one Model and lives as long as it.      *)
(* After load_from_dict has returned, create_point_3d called on the same   *)
(* Model with the coordinates of a point nested in a loaded entity returns *)
(* that instance; a later load_from_dict into the same Model takes the     *)
(* points the cache holds when it starts; and create_point_3d of another   *)
(* Model never returns an instance cached by this one.                     *)
C21_Nested(e) == {e.point, e.start_point, e.end_point, e.center_point} \ {0}

C21_CacheLifetime ==
    /\ (last.op = "create_point_3d" /\ last.tol = DefaultTolerance) =>
          \A i \in 1..Len(entities) : \A h \in C21_Nested(entities[i]) :
              points[h] = last.c => last.result = h
    /\ (last.op = "entity" /\ last.dEnt = 1 /\ last.index = 0 /\ loads >= 2) =>
          \A a \in NestedPoints(entities[Len(entities)]) :
              PointCacheKey(a[1].c, DefaultTolerance) \in DOMAIN start.point_cache =>
                  a[2] = start.point_cache[PointCacheKey(a[1].c, DefaultTolerance)]
    /\ \A c \in Coordinates, k \in DOMAIN point_cache :
          CreatePoint3D(FreshModel(Bundle), c, k[4]).result # point_cache[k]

====
